---- MODULE Spec2Model ----
(***************************************************************************)
(* The price import/export service of src/main.go: POST /api/v0/prices     *)
(* (handlePostPrices) loads data.csv of an uploaded zip archive into the   *)
(* table prices inside one transaction and answers with three aggregates;  *)
(* GET /api/v0/prices (handleGetPrices) writes the table back as a zip.    *)
(*                                                                         *)
(* A text is a tuple of one-character strings, so that strconv.Atoi,       *)
(* strconv.ParseFloat, time.Parse, strconv.Itoa, fmt.Sprintf("%.2f") and   *)
(* Time.Format are computed character by character.  A price is an integer *)
(* number of thousandths (10.00 is 10000).  The store is PostgreSQL behind *)
(* lib/pq: statements of one transaction become visible at COMMIT, a       *)
(* failed statement puts its transaction in the failed state.              *)
(***************************************************************************)
EXTENDS Integers, Sequences, FiniteSets, TLC

(***************************************************************************)
(* Bounds of the model.                                                    *)
(***************************************************************************)
\* POST requests received in one behaviour of Spec.
MaxImports == 3

\* POST requests received in one behaviour of SpecConcurrent.
MaxConcurrentImports == 2

(***************************************************************************)
(* Texts.                                                                  *)
(***************************************************************************)
Digits == <<"0", "1", "2", "3", "4", "5", "6", "7", "8", "9">>

IsDigit(c) == \E i \in 1..10 : Digits[i] = c

DigitVal(c) == (CHOOSE i \in 1..10 : Digits[i] = c) - 1

AllDigits(s) == \A i \in 1..Len(s) : IsDigit(s[i])

Upper == <<"A", "B", "C", "D", "E", "F", "G", "H", "I", "J", "K", "L", "M",
           "N", "O", "P", "Q", "R", "S", "T", "U", "V", "W", "X", "Y", "Z">>

Lower == <<"a", "b", "c", "d", "e", "f", "g", "h", "i", "j", "k", "l", "m",
           "n", "o", "p", "q", "r", "s", "t", "u", "v", "w", "x", "y", "z">>

\* strings.ToLower
ToLower(s) ==
    [i \in 1..Len(s) |->
        IF \E k \in 1..26 : Upper[k] = s[i]
        THEN Lower[CHOOSE k \in 1..26 : Upper[k] = s[i]]
        ELSE s[i]]

\* strings.HasSuffix
HasSuffix(s, suffix) ==
    /\ Len(s) >= Len(suffix)
    /\ SubSeq(s, Len(s) - Len(suffix) + 1, Len(s)) = suffix

\* strings.Contains
Contains(s, sub) ==
    \E i \in 1..(Len(s) - Len(sub) + 1) : SubSeq(s, i, i + Len(sub) - 1) = sub

IndexOf(s, c) ==
    IF \E i \in 1..Len(s) : s[i] = c
    THEN CHOOSE i \in 1..Len(s) : s[i] = c /\ \A j \in 1..(i - 1) : s[j] # c
    ELSE 0

(***************************************************************************)
(* strconv.Atoi.  A Go int has 64 bits and the column product_id 32; the   *)
(* model keeps the value when its magnitude is below 2^31 and otherwise    *)
(* only the fact that it does not fit the column (int4 = FALSE).           *)
(***************************************************************************)
MaxInt4 == 2147483647

RECURSIVE DigitsValue(_, _)
\* The value of the digits s after the value acc, or -1 once it passes MaxInt4.
DigitsValue(s, acc) ==
    IF s = << >> THEN acc
    ELSE IF acc = -1 \/ acc > (MaxInt4 - DigitVal(Head(s))) \div 10 THEN -1
    ELSE DigitsValue(Tail(s), acc * 10 + DigitVal(Head(s)))

HasSign(s) == Len(s) > 0 /\ s[1] \in {"+", "-"}

Unsigned(s) == IF HasSign(s) THEN Tail(s) ELSE s

IsIntSyntax(s) == Len(Unsigned(s)) > 0 /\ AllDigits(Unsigned(s))

Atoi(s) ==
    IF ~IsIntSyntax(s) THEN [val |-> 0, int4 |-> TRUE]
    ELSE LET m == DigitsValue(Unsigned(s), 0)
         IN  IF m = -1 THEN [val |-> 0, int4 |-> FALSE]
             ELSE [val |-> IF s[1] = "-" THEN -m ELSE m, int4 |-> TRUE]

RECURSIVE NatText(_)
NatText(n) ==
    IF n < 10 THEN <<Digits[n + 1]>>
    ELSE Append(NatText(n \div 10), Digits[(n % 10) + 1])

\* strconv.Itoa
Itoa(n) == IF n < 0 THEN <<"-">> \o NatText(-n) ELSE NatText(n)

(***************************************************************************)
(* strconv.ParseFloat on decimal texts (sign, digits, at most one point),  *)
(* in thousandths; digits after the third decimal are dropped, and every   *)
(* other text is a syntax error, which leaves 0.                           *)
(***************************************************************************)
IntPart(s) == IF IndexOf(s, ".") = 0 THEN s ELSE SubSeq(s, 1, IndexOf(s, ".") - 1)

FracPart(s) == IF IndexOf(s, ".") = 0 THEN << >> ELSE SubSeq(s, IndexOf(s, ".") + 1, Len(s))

IsFloatSyntax(s) ==
    LET u == Unsigned(s)
    IN  /\ AllDigits(IntPart(u))
        /\ AllDigits(FracPart(u))
        /\ Len(IntPart(u)) + Len(FracPart(u)) > 0

Pad3(f) == SubSeq(f \o <<"0", "0", "0">>, 1, 3)

ParseFloat(s) ==
    IF ~IsFloatSyntax(s) THEN 0
    ELSE LET u == Unsigned(s)
             m == DigitsValue(IntPart(u), 0) * 1000 + DigitsValue(Pad3(FracPart(u)), 0)
         IN  IF HasSign(s) /\ s[1] = "-" THEN -m ELSE m

\* Thousandths to hundredths as %.2f rounds: to nearest, a tie to the even digit.
RoundCents(m) ==
    LET q == m \div 10
        r == m % 10
    IN  IF r > 5 \/ (r = 5 /\ q % 2 = 1) THEN q + 1 ELSE q

Pad2(n) == IF n < 10 THEN <<"0">> \o NatText(n) ELSE NatText(n)

\* fmt.Sprintf("%.2f", price)
FormatPrice(m) ==
    LET c == RoundCents(IF m < 0 THEN -m ELSE m)
    IN  (IF m < 0 THEN <<"-">> ELSE << >>) \o NatText(c \div 100) \o <<".">> \o Pad2(c % 100)

(***************************************************************************)
(* time.Parse("2006-01-02", s) and Time.Format("2006-01-02").              *)
(***************************************************************************)
ZeroDate == [y |-> 1, m |-> 1, d |-> 1]

IsLeap(y) == y % 4 = 0 /\ (y % 100 # 0 \/ y % 400 = 0)

DaysIn(m, y) ==
    IF m = 2 THEN (IF IsLeap(y) THEN 29 ELSE 28)
    ELSE IF m \in {4, 6, 9, 11} THEN 30 ELSE 31

IsDateSyntax(s) ==
    /\ Len(s) = 10
    /\ s[5] = "-" /\ s[8] = "-"
    /\ AllDigits(SubSeq(s, 1, 4)) /\ AllDigits(SubSeq(s, 6, 7)) /\ AllDigits(SubSeq(s, 9, 10))

ParseDate(s) ==
    IF ~IsDateSyntax(s) THEN ZeroDate
    ELSE LET y == DigitsValue(SubSeq(s, 1, 4), 0)
             m == DigitsValue(SubSeq(s, 6, 7), 0)
             d == DigitsValue(SubSeq(s, 9, 10), 0)
         IN  IF m \in 1..12 /\ d >= 1 /\ d <= DaysIn(m, y)
             THEN [y |-> y, m |-> m, d |-> d]
             ELSE ZeroDate

Pad4(n) == SubSeq(<<"0", "0", "0">>, 1, 4 - Len(NatText(n))) \o NatText(n)

FormatDate(t) == Pad4(t.y) \o <<"-">> \o Pad2(t.m) \o <<"-">> \o Pad2(t.d)

(***************************************************************************)
(* Program constants.                                                      *)
(***************************************************************************)
\* strings.Contains(r.Header.Get("Content-Type"), "multipart/form-data")
MultipartFormData == <<"m", "u", "l", "t", "i", "p", "a", "r", "t", "/", "f", "o", "r", "m", "-", "d", "a", "t", "a">>

\* strings.HasSuffix(strings.ToLower(header.Filename), ".zip")
DotZip == <<".", "z", "i", "p">>

\* strings.HasSuffix(file.Name, "data.csv")
DataCsv == <<"d", "a", "t", "a", ".", "c", "s", "v">>

\* len(record) < 6
MinFields == 6

\* The first row handleGetPrices writes.
ExportHeader ==
    [fields |-> <<<<"i", "d">>, <<"p", "r", "o", "d", "u", "c", "t", "_", "i", "d">>, <<"n", "a", "m", "e">>,
                  <<"c", "a", "t", "e", "g", "o", "r", "y">>, <<"p", "r", "i", "c", "e">>,
                  <<"c", "r", "e", "a", "t", "e", "_", "d", "a", "t", "e">>>>,
     bad |-> FALSE]

\* Content-Disposition: attachment; filename="prices.zip"
PricesZip == <<"p", "r", "i", "c", "e", "s", ".", "z", "i", "p">>

(***************************************************************************)
(* The inputs.  A csv file is the sequence of the records csv.Reader finds *)
(* in it (empty lines are not records); bad marks a record whose Read      *)
(* returns a *csv.ParseError such as a bare quote.                         *)
(***************************************************************************)
Hdr5 == [fields |-> <<<<"h">>, <<"h">>, <<"h">>, <<"h">>, <<"h">>>>, bad |-> FALSE]

Hdr6 == [fields |-> <<<<"h">>, <<"h">>, <<"h">>, <<"h">>, <<"h">>, <<"h">>>>, bad |-> FALSE]

Hdr7 == [fields |-> <<<<"h">>, <<"h">>, <<"h">>, <<"h">>, <<"h">>, <<"h">>, <<"h">>>>, bad |-> FALSE]

RowA == [fields |-> <<<<"1">>, <<"a">>, <<"k">>, <<"x">>, <<"1", "0", ".", "0", "0">>, <<"2", "0", "2", "4", "-", "0", "1", "-", "1", "5">>>>, bad |-> FALSE]

RowB == [fields |-> <<<<"2">>, <<"b">>, <<"k">>, <<"y">>, <<"2", "0", ".", "5", "0">>, <<"2", "0", "2", "4", "-", "0", "2", "-", "2", "9">>>>, bad |-> FALSE]

\* product id, price and date that do not convert
RowLenient == [fields |-> <<<<"x", "7">>, <<"c">>, <<"m">>, <<"z">>, <<"a", "b", "c">>, <<"2", "0", "2", "3", "-", "0", "2", "-", "3", "0">>>>, bad |-> FALSE]

RowShort == [fields |-> <<<<"4">>, <<"d">>, <<"m">>, <<"1", ".", "0", "0">>, <<"2", "0", "2", "4", "-", "0", "1", "-", "0", "1">>>>, bad |-> FALSE]

RowLong == [fields |-> <<<<"-", "5">>, <<"e">>, <<"n">>, <<"w">>, <<"1", ".", "0", "0", "6">>, <<"2", "0", "2", "4", "-", "0", "3", "-", "0", "1">>, <<"e", "x", "t", "r", "a">>>>, bad |-> FALSE]

\* a product id beyond the range of the column product_id INT
RowBig == [fields |-> <<<<"3", "0", "0", "0", "0", "0", "0", "0", "0", "0">>, <<"f">>, <<"k">>, <<"v">>, <<"3", ".", "0", "0">>, <<"2", "0", "2", "4", "-", "0", "4", "-", "0", "1">>>>, bad |-> FALSE]

RowQuote == [fields |-> <<<<"6">>, <<"g">>>>, bad |-> TRUE]

CsvPlain == <<Hdr6, RowA, RowB>>

CsvLenient == <<Hdr6, RowShort, RowLenient, RowQuote, RowLong>>

CsvHdr5 == <<Hdr5, RowB, RowShort, RowB>>

CsvNoHeader == <<RowA, RowLenient>>

CsvRejected == <<Hdr6, RowA, RowBig, RowB>>

CsvWide == <<Hdr7, RowLong>>

CsvEmpty == << >>

\* crcOk: the entry's bytes match the CRC-32 of its header
ZipEntry(name, rows) == [name |-> name, openOk |-> TRUE, crcOk |-> TRUE, rows |-> rows]

GoodUpload(entries) ==
    [contentType |-> MultipartFormData \o <<";", " ", "b", "o", "u", "n", "d", "a", "r", "y", "=", "x">>,
     formOk |-> TRUE, hasFile |-> TRUE, filename |-> <<"D", "a", "t", "a", ".", "Z", "I", "P">>,
     readOk |-> TRUE, zipOk |-> TRUE, entries |-> entries]

Archive(rows) == GoodUpload(<<ZipEntry(DataCsv, rows)>>)

\* two entries findCSV accepts, after one it does not
Nested ==
    GoodUpload(<<ZipEntry(<<"r", "e", "a", "d", "m", "e", ".", "t", "x", "t">>, CsvHdr5),
                 ZipEntry(<<"f", "o", "o", "/", "d", "a", "t", "a", ".", "c", "s", "v">>, CsvWide),
                 ZipEntry(DataCsv, CsvPlain)>>)

\* an entry whose bytes do not match its CRC-32
Corrupt == GoodUpload(<<[ZipEntry(DataCsv, CsvPlain) EXCEPT !.crcOk = FALSE]>>)

BadUploads ==
    { [GoodUpload(<< >>) EXCEPT !.contentType = <<"a", "p", "p", "l", "i", "c", "a", "t", "i", "o", "n", "/", "j", "s", "o", "n">>],
      [GoodUpload(<< >>) EXCEPT !.formOk = FALSE],
      [GoodUpload(<< >>) EXCEPT !.hasFile = FALSE],
      [GoodUpload(<< >>) EXCEPT !.filename = <<"d", "a", "t", "a", ".", "c", "s", "v">>],
      [GoodUpload(<< >>) EXCEPT !.readOk = FALSE],
      [GoodUpload(<< >>) EXCEPT !.zipOk = FALSE],
      GoodUpload(<<ZipEntry(<<"r", "e", "a", "d", "m", "e", ".", "t", "x", "t">>, CsvPlain)>>),
      GoodUpload(<<[ZipEntry(DataCsv, CsvPlain) EXCEPT !.openOk = FALSE]>>) }

GoodUploads ==
    { Archive(CsvPlain), Archive(CsvLenient), Archive(CsvHdr5), Archive(CsvNoHeader),
      Archive(CsvRejected), Archive(CsvEmpty), Nested, Corrupt }

Uploads == BadUploads \cup GoodUploads

ConcurrentUploads ==
    { Archive(CsvPlain), Archive(CsvRejected),
      Nested }

(***************************************************************************)
(* State.                                                                  *)
(***************************************************************************)
\* The goroutines net/http runs handlePostPrices on.
Requests == {"p1", "p2"}

VARIABLES
    prices,          \* the committed rows of the table, in commit order
    nextId,          \* the sequence behind id SERIAL
    started,         \* POST requests received so far
    pc,              \* where each handlePostPrices is
    upload,          \* the request it serves
    csvFile,         \* the index of the entry findCSV returned, 0 for nil
    tx,              \* its transaction: none, open, failed, committed, aborted, rolledback
    stmt,            \* its prepared statement: none, prepared, closed
    txRows,          \* the rows its transaction wrote and has not committed
    pos,             \* the next record of its csv.Reader
    turns,           \* the parity of the loop turns taken past the last record
    fieldsPerRecord, \* the FieldsPerRecord of its csv.Reader
    inserted,        \* its local inserted
    totalCategories, \* the local of getInsertResult
    status,          \* the HTTP status written, 0 for none
    failure,         \* which error made it return
    result,          \* the InsertResult encoded, NoResult for none
    batchRows,       \* history: the rows whose ExecContext succeeded
    submitted,       \* history: every ExecContext call, with its outcome
    commitLen,       \* history: Len(prices) when Commit returned nil
    readLen,         \* history: Len(prices) at each read of getInsertResult
    exported,        \* the records of data.csv in the last GET response
    exportStatus     \* the HTTP status of the last GET

reqVars == <<pc, upload, csvFile, tx, stmt, txRows, pos, turns, fieldsPerRecord, inserted,
             totalCategories, status, failure, result, batchRows, submitted,
             commitLen, readLen>>

getVars == <<exported, exportStatus>>

vars == <<prices, nextId, started, reqVars, getVars>>

NoResult == [total_items |-> -1, total_categories |-> -1, total_price |-> -1]

NoUpload == [GoodUpload(<< >>) EXCEPT !.contentType = << >>, !.filename = << >>]

\* createTableIfNotExists on the table prepare.sh has just created
Init ==
    /\ prices = << >>
    /\ nextId = 1
    /\ started = 0
    /\ pc = [r \in Requests |-> "idle"]
    /\ upload = [r \in Requests |-> NoUpload]
    /\ csvFile = [r \in Requests |-> 0]
    /\ tx = [r \in Requests |-> "none"]
    /\ stmt = [r \in Requests |-> "none"]
    /\ txRows = [r \in Requests |-> << >>]
    /\ pos = [r \in Requests |-> 0]
    /\ turns = [r \in Requests |-> 0]
    /\ fieldsPerRecord = [r \in Requests |-> 0]
    /\ inserted = [r \in Requests |-> 0]
    /\ totalCategories = [r \in Requests |-> 0]
    /\ status = [r \in Requests |-> 0]
    /\ failure = [r \in Requests |-> "none"]
    /\ result = [r \in Requests |-> NoResult]
    /\ batchRows = [r \in Requests |-> << >>]
    /\ submitted = [r \in Requests |-> << >>]
    /\ commitLen = [r \in Requests |-> 0]
    /\ readLen = [r \in Requests |-> << >>]
    /\ exported = << >>
    /\ exportStatus = 0

(***************************************************************************)
(* Helpers of handlePostPrices.                                            *)
(***************************************************************************)
RECURSIVE findCSVFrom(_, _)
findCSVFrom(entries, i) ==
    IF i > Len(entries) THEN 0
    ELSE IF HasSuffix(entries[i].name, DataCsv) THEN i
    ELSE findCSVFrom(entries, i + 1)

\* findCSV with file.Name == "data.csv" for the test of the suffix
findCSV_exactName(entries) ==
    LET m == {i \in 1..Len(entries) : entries[i].name = DataCsv}
    IN  IF m = {} THEN 0 ELSE CHOOSE i \in m : \A j \in m : i <= j

\* findCSV without the test of the name: the first entry.
findCSV_anyEntry(entries) == IF Len(entries) > 0 THEN 1 ELSE 0

\* The index of the *zip.File returned, 0 for nil.
findCSV(entries) == findCSVFrom(entries, 1)

\* Lines 84-128: the error the upload is rejected with before the store is touched.
InputError(u) ==
    IF ~Contains(u.contentType, MultipartFormData) THEN "content-type"
    ELSE IF ~u.formOk THEN "form"
    ELSE IF ~u.hasFile THEN "form-file"
    ELSE IF ~HasSuffix(ToLower(u.filename), DotZip) THEN "file-name"
    ELSE IF ~u.readOk THEN "read"
    ELSE IF ~u.zipOk THEN "zip"
    ELSE IF findCSV(u.entries) = 0 THEN "csv-not-found"
    ELSE "none"

\* http.StatusBadRequest or http.StatusInternalServerError, as each http.Error call gives.
StatusOf(kind) ==
    IF kind \in {"content-type", "form", "form-file", "file-name", "zip", "csv-not-found"}
    THEN 400 ELSE 500

\* The records of the entry the request reads.
Rows(r) == upload[r].entries[csvFile[r]].rows

\* Lines 173-175: the arguments of ExecContext.
ParseRecord(f) ==
    [productID |-> Atoi(f[1]), name |-> f[2], category |-> f[3],
     price |-> ParseFloat(f[5]), date |-> ParseDate(f[6])]

\* The INSERT is rejected when a value does not fit its column.
StoreAccepts(args) == args.productID.int4

NewRow(id, args) ==
    [id |-> id, product_id |-> args.productID.val, name |-> args.name,
     category |-> args.category, price |-> args.price, create_date |-> args.date]

\* handlePostPrices without defer tx.Rollback()
Rollback_none(t) == t

\* defer tx.Rollback(): ErrTxDone, and no effect, once the transaction has ended.
Rollback(t) == IF t \in {"open", "failed"} THEN "rolledback" ELSE t

\* defer stmt.Close()
Close(s) == IF s = "prepared" THEN "closed" ELSE s

\* http.Error and return: the deferred calls run, nothing is encoded.
Fail(r, kind) ==
    /\ pc' = [pc EXCEPT ![r] = "done"]
    /\ status' = [status EXCEPT ![r] = StatusOf(kind)]
    /\ failure' = [failure EXCEPT ![r] = kind]
    /\ tx' = [tx EXCEPT ![r] = Rollback(@)]
    /\ stmt' = [stmt EXCEPT ![r] = Close(@)]
    /\ txRows' = [txRows EXCEPT ![r] = << >>]

\* What Fail leaves alone.
failKeeps == <<upload, csvFile, pos, turns, fieldsPerRecord, inserted, totalCategories, result,
               batchRows, submitted, commitLen, readLen>>

(***************************************************************************)
(* handlePostPrices, one action per stretch between two store round trips. *)
(***************************************************************************)
\* A client posts back the archive a GET answered with.
ExportedUpload == [GoodUpload(<<ZipEntry(DataCsv, exported)>>) EXCEPT !.filename = PricesZip]

\* Lines 83-128: the upload is read and unpacked, or rejected.
ReceiveUpload(r, u) ==
    /\ pc[r] \in {"idle", "done"}
    /\ started' = started + 1
    /\ upload' = [upload EXCEPT ![r] = u]
    /\ csvFile' = [csvFile EXCEPT ![r] = IF InputError(u) = "none" THEN findCSV(u.entries) ELSE 0]
    /\ pc' = [pc EXCEPT ![r] = IF InputError(u) = "none" THEN "begin" ELSE "done"]
    /\ status' = [status EXCEPT ![r] = IF InputError(u) = "none" THEN 0 ELSE StatusOf(InputError(u))]
    /\ failure' = [failure EXCEPT ![r] = InputError(u)]
    /\ tx' = [tx EXCEPT ![r] = "none"]
    /\ stmt' = [stmt EXCEPT ![r] = "none"]
    /\ txRows' = [txRows EXCEPT ![r] = << >>]
    /\ pos' = [pos EXCEPT ![r] = 0]
    /\ turns' = [turns EXCEPT ![r] = 0]
    /\ fieldsPerRecord' = [fieldsPerRecord EXCEPT ![r] = 0]
    /\ inserted' = [inserted EXCEPT ![r] = 0]
    /\ totalCategories' = [totalCategories EXCEPT ![r] = 0]
    /\ result' = [result EXCEPT ![r] = NoResult]
    /\ batchRows' = [batchRows EXCEPT ![r] = << >>]
    /\ submitted' = [submitted EXCEPT ![r] = << >>]
    /\ commitLen' = [commitLen EXCEPT ![r] = 0]
    /\ readLen' = [readLen EXCEPT ![r] = << >>]
    /\ UNCHANGED <<prices, nextId, getVars>>

\* Lines 130-136.
BeginTx(r) ==
    /\ pc[r] = "begin"
    /\ \E ok \in BOOLEAN :
        IF ok
        THEN /\ tx' = [tx EXCEPT ![r] = "open"]
             /\ pc' = [pc EXCEPT ![r] = "prepare"]
             /\ UNCHANGED <<status, failure, stmt, txRows>>
        ELSE Fail(r, "begin")
    /\ UNCHANGED <<prices, nextId, started, failKeeps, getVars>>

\* Lines 138-147.
PrepareContext(r) ==
    /\ pc[r] = "prepare"
    /\ \E ok \in BOOLEAN :
        IF ok
        THEN /\ stmt' = [stmt EXCEPT ![r] = "prepared"]
             /\ pc' = [pc EXCEPT ![r] = "open"]
             /\ UNCHANGED <<status, failure, tx, txRows>>
        ELSE Fail(r, "prepare")
    /\ UNCHANGED <<prices, nextId, started, failKeeps, getVars>>

\* csv.Reader.Read with FieldsPerRecord 0 at the start: the first record sets the
\* field count, and a later record with another count comes with ErrFieldCount.
\* Past the last record the stream ends with io.EOF, or, when the bytes read do
\* not match the entry's CRC-32, with zip.ErrChecksum, which the entry's reader
\* keeps and returns to every later Read.
Read(entry, p, fpr) ==
    IF p > Len(entry.rows)
    THEN [eof |-> entry.crcOk, err |-> ~entry.crcOk, record |-> << >>, fpr |-> fpr]
    ELSE [eof |-> FALSE,
          err |-> entry.rows[p].bad \/ (fpr > 0 /\ Len(entry.rows[p].fields) # fpr),
          record |-> entry.rows[p].fields,
          fpr |-> IF fpr = 0 THEN Len(entry.rows[p].fields) ELSE fpr]

\* Lines 149-157: the entry is opened and its first record read and dropped.
openCSVFromZip(r) ==
    /\ pc[r] = "open"
    /\ IF upload[r].entries[csvFile[r]].openOk
       THEN LET header == Read(upload[r].entries[csvFile[r]], 1, 0)
            IN  /\ pos' = [pos EXCEPT ![r] = IF Len(Rows(r)) = 0 THEN 1 ELSE 2]
                /\ fieldsPerRecord' = [fieldsPerRecord EXCEPT ![r] = header.fpr]
                /\ pc' = [pc EXCEPT ![r] = "rows"]
                /\ UNCHANGED <<status, failure, tx, stmt, txRows, turns>>
       ELSE /\ Fail(r, "open")
            /\ UNCHANGED <<pos, turns, fieldsPerRecord>>
    /\ UNCHANGED <<prices, nextId, started, upload, csvFile, inserted, totalCategories,
                   result, batchRows, submitted, commitLen, readLen, getVars>>

\* InsertRow with the statement prepared on db instead of tx: the row is committed at once.
InsertRow_onDb(r, row) ==
    /\ prices' = Append(prices, row)
    /\ txRows' = txRows

\* The statement was prepared on tx: its row is the transaction's until COMMIT.
InsertRow(r, row) ==
    /\ txRows' = [txRows EXCEPT ![r] = Append(@, row)]
    /\ prices' = prices

\* inserted as a variable of the package, which every request increments
Count_shared(r) == [q \in Requests |-> inserted[q] + 1]

\* Line 182: inserted++ on the local of this call.
Count(r) == [inserted EXCEPT ![r] = @ + 1]

\* Line 177. An error leaves the transaction failed, and every statement of a
\* failed transaction is an error.
ExecContext(r, line, args) ==
    LET ok == tx[r] = "open" /\ StoreAccepts(args)
    IN  /\ submitted' = [submitted EXCEPT ![r] = Append(@, [line |-> line, args |-> args, ok |-> ok])]
        /\ IF ok
           THEN /\ InsertRow(r, NewRow(nextId, args))
                /\ nextId' = nextId + 1
                /\ inserted' = Count(r)
                /\ batchRows' = [batchRows EXCEPT ![r] = Append(@, NewRow(nextId, args))]
                /\ tx' = tx
           ELSE /\ tx' = [tx EXCEPT ![r] = IF @ = "open" THEN "failed" ELSE @]
                /\ UNCHANGED <<prices, txRows, nextId, inserted, batchRows>>

\* break where lines 166 and 170 have continue
Continue_break(r) ==
    /\ pc' = [pc EXCEPT ![r] = "commit"]
    /\ UNCHANGED <<prices, nextId, tx, txRows, inserted, batchRows, submitted>>

\* Lines 166 and 170: continue, the record is dropped and the loop goes on.
Continue(r) ==
    /\ pc' = pc
    /\ UNCHANGED <<prices, nextId, tx, txRows, inserted, batchRows, submitted>>

\* Lines 159-183: one turn of the loop. A turn past the last record reads no
\* record: the reader stays where it is.
ReadRecord(r) ==
    /\ pc[r] = "rows"
    /\ LET rd == Read(upload[r].entries[csvFile[r]], pos[r], fieldsPerRecord[r])
           past == pos[r] > Len(Rows(r))
       IN  IF rd.eof
           THEN /\ pc' = [pc EXCEPT ![r] = "commit"]
                /\ UNCHANGED <<pos, turns, fieldsPerRecord, prices, nextId, tx, txRows, inserted,
                               batchRows, submitted>>
           ELSE /\ pos' = [pos EXCEPT ![r] = IF past THEN @ ELSE @ + 1]
                /\ turns' = [turns EXCEPT ![r] = IF past THEN 1 - @ ELSE @]
                /\ fieldsPerRecord' = [fieldsPerRecord EXCEPT ![r] = rd.fpr]
                /\ IF rd.err \/ Len(rd.record) < MinFields
                   THEN Continue(r)
                   ELSE /\ pc' = pc
                        /\ ExecContext(r, pos[r], ParseRecord(rd.record))
    /\ UNCHANGED <<started, upload, csvFile, stmt, totalCategories, status, failure, result,
                   commitLen, readLen, getVars>>

\* CommitOk with tx.Commit moved behind getInsertResult: the rows stay uncommitted.
CommitOk_afterSummary(r) ==
    /\ commitLen' = [commitLen EXCEPT ![r] = Len(prices)]
    /\ pc' = [pc EXCEPT ![r] = "categories"]
    /\ UNCHANGED <<prices, txRows, tx, stmt, status, failure>>

\* Line 185, err == nil.
CommitOk(r) ==
    /\ prices' = prices \o txRows[r]
    /\ txRows' = [txRows EXCEPT ![r] = << >>]
    /\ tx' = [tx EXCEPT ![r] = "committed"]
    /\ commitLen' = [commitLen EXCEPT ![r] = Len(prices) + Len(txRows[r])]
    /\ pc' = [pc EXCEPT ![r] = "categories"]
    /\ UNCHANGED <<stmt, status, failure>>

\* CommitErr without the return of line 188: the handler goes on to the summary.
CommitErr_noReturn(r) ==
    /\ tx' = [tx EXCEPT ![r] = "aborted"]
    /\ txRows' = [txRows EXCEPT ![r] = << >>]
    /\ pc' = [pc EXCEPT ![r] = "categories"]
    /\ UNCHANGED <<prices, commitLen, stmt, status, failure>>

\* Lines 185-189: the store has dropped the transaction.
CommitErr(r) ==
    /\ tx' = [tx EXCEPT ![r] = "aborted"]
    /\ txRows' = [txRows EXCEPT ![r] = << >>]
    /\ stmt' = [stmt EXCEPT ![r] = Close(@)]
    /\ pc' = [pc EXCEPT ![r] = "done"]
    /\ status' = [status EXCEPT ![r] = StatusOf("commit")]
    /\ failure' = [failure EXCEPT ![r] = "commit"]
    /\ UNCHANGED <<prices, commitLen>>

\* Lines 185-189. lib/pq answers the Commit of a failed transaction with
\* ErrInFailedTransaction after rolling it back.
Commit(r) ==
    /\ pc[r] = "commit"
    /\ \E ok \in BOOLEAN : IF tx[r] = "open" /\ ok THEN CommitOk(r) ELSE CommitErr(r)
    /\ UNCHANGED <<nextId, started, upload, csvFile, pos, turns, fieldsPerRecord, inserted,
                   totalCategories, result, batchRows, submitted, readLen, getVars>>

(***************************************************************************)
(* getInsertResult.                                                        *)
(***************************************************************************)
\* CountDistinctCategory as COUNT(category), without DISTINCT.
CountDistinctCategory_all(rows) == Len(rows)

\* SELECT COUNT(DISTINCT category) FROM prices
CountDistinctCategory(rows) == Cardinality({rows[i].category : i \in 1..Len(rows)})

RECURSIVE SumPrice_productId(_)
\* SumPrice over the column product_id.
SumPrice_productId(rows) ==
    IF rows = << >> THEN 0 ELSE Head(rows).product_id + SumPrice_productId(Tail(rows))

RECURSIVE SumPrice(_)
\* SELECT COALESCE(SUM(price), 0) FROM prices
SumPrice(rows) == IF rows = << >> THEN 0 ELSE Head(rows).price + SumPrice(Tail(rows))

\* Lines 282-286.
QueryCategories(r) ==
    /\ pc[r] = "categories"
    /\ \E ok \in BOOLEAN :
        IF ok
        THEN /\ totalCategories' = [totalCategories EXCEPT ![r] = CountDistinctCategory(prices)]
             /\ readLen' = [readLen EXCEPT ![r] = Append(@, Len(prices))]
             /\ pc' = [pc EXCEPT ![r] = "price"]
             /\ UNCHANGED <<status, failure, tx, stmt, txRows>>
        ELSE /\ Fail(r, "aggregate")
             /\ UNCHANGED <<totalCategories, readLen>>
    /\ UNCHANGED <<prices, nextId, started, upload, csvFile, pos, turns, fieldsPerRecord, inserted,
                   result, batchRows, submitted, commitLen, getVars>>

\* Lines 288-298 and 191-200.
QueryPrice(r) ==
    /\ pc[r] = "price"
    /\ \E ok \in BOOLEAN :
        IF ok
        THEN /\ result' = [result EXCEPT ![r] =
                    [total_items |-> inserted[r],
                     total_categories |-> totalCategories[r],
                     total_price |-> SumPrice(prices)]]
             /\ readLen' = [readLen EXCEPT ![r] = Append(@, Len(prices))]
             /\ status' = [status EXCEPT ![r] = 200]
             /\ pc' = [pc EXCEPT ![r] = "done"]
             /\ tx' = [tx EXCEPT ![r] = Rollback(@)]
             /\ stmt' = [stmt EXCEPT ![r] = Close(@)]
             /\ UNCHANGED <<failure, txRows>>
        ELSE /\ Fail(r, "aggregate")
             /\ UNCHANGED <<result, readLen>>
    /\ UNCHANGED <<prices, nextId, started, upload, csvFile, pos, turns, fieldsPerRecord, inserted,
                   totalCategories, batchRows, submitted, commitLen, getVars>>

(***************************************************************************)
(* handleGetPrices.                                                        *)
(***************************************************************************)
\* ORDER BY id DESC
OrderById_desc(rows) ==
    [i \in 1..Len(rows) |->
        CHOOSE row \in {rows[k] : k \in 1..Len(rows)} :
            Cardinality({k \in 1..Len(rows) : rows[k].id > row.id}) = i - 1]

\* ORDER BY id ASC
OrderById(rows) ==
    [i \in 1..Len(rows) |->
        CHOOSE row \in {rows[k] : k \in 1..Len(rows)} :
            Cardinality({k \in 1..Len(rows) : rows[k].id < row.id}) = i - 1]

\* Lines 228-235.
ExportRecord(row) ==
    [fields |-> <<Itoa(row.id), Itoa(row.product_id), row.name, row.category,
                  FormatPrice(row.price), FormatDate(row.create_date)>>,
     bad |-> FALSE]

\* Lines 215-236.
ExportCsv(rows) == <<ExportHeader>> \o [i \in 1..Len(rows) |-> ExportRecord(OrderById(rows)[i])]

\* Lines 202-279: one SELECT, and so one snapshot of the committed rows.
handleGetPrices ==
    /\ \E ok \in BOOLEAN :
        IF ok
        THEN /\ exported' = ExportCsv(prices)
             /\ exportStatus' = 200
        ELSE /\ exported' = << >>
             /\ exportStatus' = 500
    /\ UNCHANGED <<prices, nextId, started, reqVars>>

(***************************************************************************)
(* The service: lines 49-59.                                               *)
(***************************************************************************)
\* The steps of a request that has passed the unpacking.
Handle(r) ==
    \/ BeginTx(r)
    \/ PrepareContext(r)
    \/ openCSVFromZip(r)
    \/ ReadRecord(r)
    \/ Commit(r)
    \/ QueryCategories(r)
    \/ QueryPrice(r)

\* Requests served one after the other, with every input.
Next ==
    \/ \E u \in Uploads : started < MaxImports /\ ReceiveUpload("p1", u)
    \/ started < MaxImports /\ exportStatus = 200 /\ ReceiveUpload("p1", ExportedUpload)
    \/ Handle("p1")
    \/ handleGetPrices

Spec == Init /\ [][Next]_vars

\* The goroutine of a request is scheduled until its handler returns, and the
\* store answers every call.
SpecFair == Spec /\ WF_vars(Handle("p1"))

\* Two imports and the export in flight together, with the inputs that reach the store.
NextConcurrent ==
    \/ \E r \in Requests : \E u \in ConcurrentUploads :
            started < MaxConcurrentImports /\ ReceiveUpload(r, u)
    \/ \E r \in Requests : Handle(r)
    \/ handleGetPrices

SpecConcurrent == Init /\ [][NextConcurrent]_vars

(***************************************************************************)
(* What the claims speak of.                                               *)
(***************************************************************************)
\* The ids of the first n committed rows.
Visible(n) == {prices[i].id : i \in 1..n}

\* The ids of the rows the request's batch inserted.
BatchIds(r) == {batchRows[r][i].id : i \in 1..Len(batchRows[r])}

\* The ids a GET response lists.
ExportedIds == {Atoi(exported[i].fields[1]).val : i \in 2..Len(exported)}

\* The store states a request's two aggregate reads were taken on.
ReadStates(r) == {readLen[r][i] : i \in 1..Len(readLen[r])}

Succeeded(r) == pc[r] = "done" /\ status[r] = 200

Prefix(n) == SubSeq(prices, 1, n)

Categories(rows) == {rows[i].category : i \in 1..Len(rows)}

RECURSIVE PriceTotalTo(_, _)
PriceTotalTo(rows, n) == IF n = 0 THEN 0 ELSE PriceTotalTo(rows, n - 1) + rows[n].price

PriceTotal(rows) == PriceTotalTo(rows, Len(rows))

(***************************************************************************)
(* C1. Whatever the interleaving of imports with the export GET and with   *)
(* the aggregate reads of imports, a read sees of every batch either none  *)
(* of the rows it inserted or all of them.                                 *)
(***************************************************************************)
C1_AllOrNothing ==
    \A r \in Requests :
        /\ ExportedIds \cap BatchIds(r) = {} \/ BatchIds(r) \subseteq ExportedIds
        /\ \A q \in Requests : \A n \in ReadStates(q) :
               Visible(n) \cap BatchIds(r) = {} \/ BatchIds(r) \subseteq Visible(n)

\* An export lists both rows of a committed batch and none of a batch still in flight.
C1_Witness ==
    /\ exportStatus = 200
    /\ \E r, q \in Requests :
        /\ tx[r] = "committed" /\ Len(batchRows[r]) = 2 /\ BatchIds(r) \subseteq ExportedIds
        /\ tx[q] = "open" /\ Len(batchRows[q]) >= 1 /\ BatchIds(q) \cap ExportedIds = {}

(***************************************************************************)
(* C2. When the Commit of an import fails, no row of its batch is in the   *)
(* store afterwards, the transaction has been dropped, and the caller gets *)
(* a server error and no summary.                                          *)
(***************************************************************************)
C2_CommitFailure ==
    \A r \in Requests :
        (tx[r] = "aborted" /\ pc[r] = "done") =>
            /\ status[r] = 500
            /\ result[r] = NoResult
            /\ txRows[r] = << >>
            /\ Visible(Len(prices)) \cap BatchIds(r) = {}

\* A commit failed after the batch had inserted a row.
C2_Witness ==
    \E r \in Requests :
        tx[r] = "aborted" /\ pc[r] = "done" /\ failure[r] = "commit" /\ Len(batchRows[r]) >= 1

(***************************************************************************)
(* C3. The total_items of a successful import is the number of records of  *)
(* the file after the first that have at least 6 fields and that the store *)
(* accepts, whatever the field count of the first record or of the others. *)
(***************************************************************************)
C3_CountsEveryRow ==
    \A r \in Requests :
        Succeeded(r) =>
            result[r].total_items =
                Cardinality({i \in 2..Len(Rows(r)) :
                    /\ ~Rows(r)[i].bad
                    /\ Len(Rows(r)[i].fields) >= 6
                    /\ StoreAccepts(ParseRecord(Rows(r)[i].fields))})

(***************************************************************************)
(* C4. Importing the archive an export produced inserts as many rows as    *)
(* were exported, each with the product id, name, category, price and date *)
(* of the exported row it came from.                                       *)
(***************************************************************************)
IsReimport(r) == upload[r].filename = PricesZip

\* The stored row a record of an export was written from.
SourceRow(record) ==
    CHOOSE row \in {prices[k] : k \in 1..Len(prices)} : row.id = Atoi(record.fields[1]).val

C4_RoundTrip ==
    \A r \in Requests :
        (IsReimport(r) /\ Succeeded(r)) =>
            /\ result[r].total_items = Len(Rows(r)) - 1
            /\ Len(batchRows[r]) = Len(Rows(r)) - 1
            /\ \A i \in 1..Len(batchRows[r]) :
                LET new == batchRows[r][i]
                    old == SourceRow(Rows(r)[i + 1])
                IN  /\ new.product_id = old.product_id
                    /\ new.name = old.name
                    /\ new.category = old.category
                    /\ new.price = old.price
                    /\ new.create_date = old.create_date

(***************************************************************************)
(* C5. An insert the store rejects does not abort the transaction: the     *)
(* transaction stays open, and every later record the store accepts is     *)
(* inserted.                                                               *)
(***************************************************************************)
C5_RejectedRowKeepsTransaction ==
    \A r \in Requests :
        (pc[r] \in {"rows", "commit"} /\ \E i \in 1..Len(submitted[r]) : ~submitted[r][i].ok) =>
            /\ tx[r] = "open"
            /\ \A i \in 1..Len(submitted[r]) :
                   StoreAccepts(submitted[r][i].args) => submitted[r][i].ok

(***************************************************************************)
(* C6. The two aggregates of a summary are the values of one store state   *)
(* reached at or after the commit of the batch.                            *)
(***************************************************************************)
C6_OneStoreState ==
    \A r \in Requests :
        Succeeded(r) =>
            \E n \in commitLen[r]..Len(prices) :
                /\ result[r].total_categories = Cardinality(Categories(Prefix(n)))
                /\ result[r].total_price = PriceTotal(Prefix(n))

(***************************************************************************)
(* C6 as amended. The category count is the value of a store state reached *)
(* at or after the commit of the batch, and the price sum the value of     *)
(* that state or of a later one; they are the values of one state when no  *)
(* import committed between the two reads.                                 *)
(***************************************************************************)
C6_TwoStoreStates ==
    \A r \in Requests :
        Succeeded(r) =>
            /\ \E n \in commitLen[r]..Len(prices) : \E m \in n..Len(prices) :
                   /\ result[r].total_categories = Cardinality(Categories(Prefix(n)))
                   /\ result[r].total_price = PriceTotal(Prefix(m))
            /\ readLen[r][1] = readLen[r][2] =>
                   \E n \in commitLen[r]..Len(prices) :
                       /\ result[r].total_categories = Cardinality(Categories(Prefix(n)))
                       /\ result[r].total_price = PriceTotal(Prefix(n))

\* Another import committed between the two reads of a summary.
C6_Witness ==
    \E r \in Requests :
        Succeeded(r) /\ Len(batchRows[r]) >= 1 /\ readLen[r][1] < readLen[r][2]

(***************************************************************************)
(* C7. With no other import in flight, the summary of a successful import  *)
(* counts the distinct categories of all rows of the store and sums the    *)
(* prices of all of them, 0 for an empty store; the prices 10.00 and 20.50 *)
(* imported into an empty store sum to 30.50.                              *)
(***************************************************************************)
\* The price fields of the records the import submitted.
PriceTexts(r) == [i \in 1..Len(submitted[r]) |-> Rows(r)[submitted[r][i].line].fields[5]]

C7_SummaryOfStore ==
    \A r \in Requests :
        Succeeded(r) =>
            /\ result[r].total_categories = Cardinality(Categories(prices))
            /\ result[r].total_price = PriceTotal(prices)
            /\ prices = << >> => result[r].total_price = 0
            /\ (/\ Len(prices) = 2
                /\ PriceTexts(r) = <<<<"1", "0", ".", "0", "0">>, <<"2", "0", ".", "5", "0">>>>)
               => result[r].total_price = 30500

\* 10.00 and 20.50, of one category, imported into the empty store.
C7_Witness ==
    \E r \in Requests :
        /\ Succeeded(r)
        /\ Len(prices) = 2 /\ Len(batchRows[r]) = 2
        /\ PriceTexts(r) = <<<<"1", "0", ".", "0", "0">>, <<"2", "0", ".", "5", "0">>>>
        /\ result[r] = [total_items |-> 2, total_categories |-> 1, total_price |-> 30500]

(***************************************************************************)
(* C8. When an aggregate read fails after the commit, the caller gets a    *)
(* server error and no summary, and every row the batch inserted stays     *)
(* committed in the store.                                                 *)
(***************************************************************************)
C8_AggregationFailureKeepsRows ==
    \A r \in Requests :
        (pc[r] = "done" /\ failure[r] = "aggregate") =>
            /\ status[r] = 500
            /\ result[r] = NoResult
            /\ tx[r] = "committed"
            /\ BatchIds(r) \subseteq Visible(Len(prices))

\* An aggregate read failed after a batch of two rows was committed.
C8_Witness ==
    \E r \in Requests :
        pc[r] = "done" /\ failure[r] = "aggregate" /\ Len(batchRows[r]) = 2

(***************************************************************************)
(* C9. An upload that is not multipart, not a valid archive or without an  *)
(* entry named like the data file is rejected with no store interaction:   *)
(* no transaction, no statement prepared or executed, no row written.      *)
(***************************************************************************)
NotMultipart(u) == ~Contains(u.contentType, MultipartFormData) \/ ~u.formOk \/ ~u.hasFile

NotArchive(u) == ~HasSuffix(ToLower(u.filename), DotZip) \/ ~u.zipOk

NoDataEntry(u) == \A i \in 1..Len(u.entries) : ~HasSuffix(u.entries[i].name, DataCsv)

C9_InputErrorTouchesNoStore ==
    \A r \in Requests :
        (pc[r] # "idle" /\ (NotMultipart(upload[r]) \/ NotArchive(upload[r]) \/ NoDataEntry(upload[r]))) =>
            /\ pc[r] = "done" /\ status[r] \in {400, 500} /\ result[r] = NoResult
            /\ tx[r] = "none" /\ stmt[r] = "none"
            /\ submitted[r] = << >> /\ batchRows[r] = << >> /\ txRows[r] = << >>

\* An archive with entries but no data.csv is rejected while the store holds rows.
C9_Witness ==
    \E r \in Requests :
        /\ pc[r] = "done" /\ failure[r] = "csv-not-found" /\ Len(upload[r].entries) >= 1
        /\ Len(prices) >= 1

(***************************************************************************)
(* C10. Every record after the first that has at least 6 fields is         *)
(* submitted for insert, as the record built from its fields 0, 1, 2, 4    *)
(* and 5 with the zero value for a field that does not convert.            *)
(***************************************************************************)
C10_EveryRowSubmitted ==
    \A r \in Requests :
        csvFile[r] # 0 =>
            \A i \in 2..(pos[r] - 1) :
                (~Rows(r)[i].bad /\ Len(Rows(r)[i].fields) >= 6) =>
                    \E k \in 1..Len(submitted[r]) :
                        /\ submitted[r][k].line = i
                        /\ submitted[r][k].args = ParseRecord(Rows(r)[i].fields)


(***************************************************************************)
(* C11. A data row with fewer than six fields is skipped.                   *)
(***************************************************************************)
\* the ExecContext calls of r that returned nil
Accepted(r) == {k \in 1..Len(submitted[r]) : submitted[r][k].ok}

\* the loop of r has ended and the handler is at or past Commit
LoopEnded(r) ==
    \/ pc[r] \in {"commit", "categories", "price"}
    \/ pc[r] = "done" /\ failure[r] \in {"none", "commit", "aggregate"} /\ csvFile[r] # 0

\* C11: a data row with fewer than 6 fields is never handed to ExecContext, so
\* no row of the batch comes from it and inserted does not count it: inserted
\* and the batch's rows are exactly the calls that returned nil, all of them
\* on rows of 6 fields or more. The rows after it are still read: the loop
\* ends only past the last row, and a later row that parses and has the
\* header's 6 or more fields is handed to ExecContext.
C11_ShortRowSkipped ==
    \A r \in Requests :
        csvFile[r] # 0 =>
            /\ \A k \in 1..Len(submitted[r]) :
                   Len(Rows(r)[submitted[r][k].line].fields) >= 6
            /\ inserted[r] = Cardinality(Accepted(r))
            /\ Len(batchRows[r]) = Cardinality(Accepted(r))
            /\ Succeeded(r) => result[r].total_items = Cardinality(Accepted(r))
            /\ LoopEnded(r) => pos[r] = Len(Rows(r)) + 1
            /\ \A j \in 2..(pos[r] - 1) :
                   (j <= Len(Rows(r)) /\ ~Rows(r)[j].bad /\ Len(Rows(r)[j].fields) >= 6
                      /\ Len(Rows(r)[j].fields) = Len(Rows(r)[1].fields))
                   => \E k \in 1..Len(submitted[r]) : submitted[r][k].line = j

\* A row of 5 fields was passed over, a later row was inserted and the loop ended.
C11_Witness ==
    \E r \in Requests :
        /\ Succeeded(r)
        /\ \E i \in 2..Len(Rows(r)) : \E k \in Accepted(r) :
               /\ Len(Rows(r)[i].fields) = 5
               /\ i < submitted[r][k].line
               /\ result[r].total_items = 1

(***************************************************************************)
(* C12. BeginTx or PrepareContext fails.                                    *)
(***************************************************************************)
\* C12: when db.BeginTx or tx.PrepareContext returns an error the import ends
\* with a server error before the entry is opened: no record has been read, no
\* ExecContext called, nothing counted or reported, the transaction does not
\* exist (BeginTx) or is rolled back (PrepareContext), and no row of the
\* request is in the table or pending.
C12_FailsBeforeAnyRecord ==
    \A r \in Requests :
        failure[r] \in {"begin", "prepare"} =>
            /\ pc[r] = "done"
            /\ status[r] = 500
            /\ pos[r] = 0 /\ fieldsPerRecord[r] = 0
            /\ submitted[r] = << >> /\ batchRows[r] = << >> /\ txRows[r] = << >>
            /\ inserted[r] = 0 /\ result[r] = NoResult /\ readLen[r] = << >>
            /\ stmt[r] = "none"
            /\ tx[r] = IF failure[r] = "begin" THEN "none" ELSE "rolledback"

\* PrepareContext failed on a table that holds the rows of an earlier import.
C12_Witness ==
    \E r \in Requests :
        /\ failure[r] = "prepare" /\ tx[r] = "rolledback" /\ status[r] = 500
        /\ Len(prices) > 0

(***************************************************************************)
(* C13. The entry the import reads.                                         *)
(***************************************************************************)
\* the entries of u whose name ends with data.csv
DataEntries(u) ==
    {i \in 1..Len(u.entries) :
        LET n == u.entries[i].name
        IN  Len(n) >= 8 /\ SubSeq(n, Len(n) - 7, Len(n)) = <<"d", "a", "t", "a", ".", "c", "s", "v">>}

\* the upload reached findCSV
Unpacked(u) == ~NotMultipart(u) /\ ~NotArchive(u) /\ u.readOk

\* C13: of an archive that was unpacked the import reads the first entry, in
\* the archive's order, whose name ends with data.csv, whatever directory the
\* name puts it in; "CSV file not found" is answered exactly when no entry has
\* such a name. No other entry is read: every record handed to ExecContext is
\* a record of the selected entry, and the reader never goes past its end.
C13_FirstDataCsvEntry ==
    \A r \in Requests :
        (pc[r] # "idle" /\ Unpacked(upload[r])) =>
            LET m == DataEntries(upload[r])
            IN  /\ failure[r] = "csv-not-found" <=> m = {}
                /\ m = {} => csvFile[r] = 0 /\ pc[r] = "done" /\ status[r] = 400
                /\ m # {} =>
                       /\ csvFile[r] \in m
                       /\ \A j \in m : csvFile[r] <= j
                       /\ pos[r] <= Len(upload[r].entries[csvFile[r]].rows) + 1
                       /\ \A k \in 1..Len(submitted[r]) :
                              /\ submitted[r][k].line \in 2..Len(upload[r].entries[csvFile[r]].rows)
                              /\ submitted[r][k].args =
                                    ParseRecord(upload[r].entries[csvFile[r]].rows[submitted[r][k].line].fields)

\* foo/data.csv, between readme.txt and data.csv, was imported.
C13_Witness ==
    \E r \in Requests :
        /\ Succeeded(r)
        /\ Len(upload[r].entries) = 3
        /\ DataEntries(upload[r]) = {2, 3}
        /\ upload[r].entries[2].name = <<"f", "o", "o", "/", "d", "a", "t", "a", ".", "c", "s", "v">>
        /\ result[r].total_items = 1
        /\ \E i \in 1..Len(prices) : prices[i].name = <<"e">>

(***************************************************************************)
(* C14. The status class of a failed import.                                *)
(***************************************************************************)
\* C14: an import that returns on an input-format or unpacking failure (the
\* payload is not multipart, the archive is invalid, the data entry is missing
\* or cannot be opened) answers with a 4xx status, one that returns on a
\* failure of BeginTx, PrepareContext, Commit or getInsertResult answers with
\* a 5xx status, and 200 with the summary is answered only after the commit
\* and both reads of getInsertResult succeeded.
C14_StatusClassOfFailure ==
    \A r \in Requests :
        pc[r] = "done" =>
            /\ failure[r] \in {"content-type", "form", "form-file", "file-name", "zip",
                               "csv-not-found", "open"}
                   => status[r] \in 400..499
            /\ failure[r] \in {"begin", "prepare", "commit", "aggregate"}
                   => status[r] \in 500..599
            /\ status[r] = 200
                   => tx[r] = "committed" /\ Len(readLen[r]) = 2 /\ result[r] # NoResult

(***************************************************************************)
(* C15. The loop ends and Commit is called.                                 *)
(***************************************************************************)
\* C15: once the transaction is open, the statement prepared and the entry
\* opened, the loop over the records ends whatever the stream returns, and
\* tx.Commit() is called: an import that is in the loop is later at Commit.
C15_LoopEndsInCommit ==
    \A r \in Requests : (pc[r] = "rows") ~> (pc[r] = "commit")

(***************************************************************************)
(* C16. No handler returns with its transaction open.                       *)
(***************************************************************************)
\* C16: when handlePostPrices has returned, a transaction that BeginTx opened
\* has ended: rolled back after a failure of PrepareContext or of
\* openCSVFromZip, ended by the failed Commit, or committed when Commit
\* returned nil; nothing of it is pending. A committed transaction stays
\* committed: after the return its rows are in the table, whether the summary
\* was answered or getInsertResult failed. There is no transaction exactly
\* when the handler returned before or at BeginTx.
C16_TransactionEnded ==
    \A r \in Requests :
        pc[r] = "done" =>
            /\ tx[r] \in {"none", "rolledback", "aborted", "committed"}
            /\ txRows[r] = << >>
            /\ tx[r] = "none" <=> failure[r] \in {"content-type", "form", "form-file", "file-name",
                                                  "read", "zip", "csv-not-found", "begin"}
            /\ failure[r] \in {"prepare", "open"} => tx[r] = "rolledback"
            /\ failure[r] = "commit" => tx[r] = "aborted"
            /\ (failure[r] = "aggregate" \/ status[r] = 200) =>
                   /\ tx[r] = "committed"
                   /\ BatchIds(r) \subseteq Visible(Len(prices))

\* getInsertResult failed after the commit: the handler has returned and the
\* batch's rows are in the table, beside those of an earlier import.
C16_Witness ==
    \E r \in Requests :
        /\ pc[r] = "done" /\ failure[r] = "aggregate" /\ tx[r] = "committed"
        /\ BatchIds(r) # {} /\ BatchIds(r) \subseteq Visible(Len(prices))
        /\ Len(prices) > Len(batchRows[r])

(***************************************************************************)
(* C17. Imports in flight together.                                         *)
(***************************************************************************)
\* the places in the table of the rows the batch of r inserted
Stored(r) == {i \in 1..Len(prices) : prices[i].id \in BatchIds(r)}

\* no row is there twice, no two batches share a row, every row of a
\* committed batch is in the table once, and the summary counts the rows that
\* the request's own ExecContext calls inserted
NoInterference ==
    /\ \A i, j \in 1..Len(prices) : prices[i].id = prices[j].id => i = j
    /\ \A r, q \in Requests : r # q => BatchIds(r) \cap BatchIds(q) = {}
    /\ \A r \in Requests :
           /\ tx[r] = "committed" =>
                  /\ \A k \in 1..Len(batchRows[r]) : \E i \in 1..Len(prices) : prices[i] = batchRows[r][k]
                  /\ Cardinality(Stored(r)) = Len(batchRows[r])
           /\ Succeeded(r) =>
                  /\ result[r].total_items = Len(batchRows[r])
                  /\ result[r].total_items = Cardinality(Accepted(r))

\* the table changes only by a commit, which adds the rows of its batch, all
\* of them, after the rows that were there
GrowsByBatch ==
    \/ prices' = prices
    \/ \E r \in Requests :
           /\ tx[r] # "committed" /\ tx'[r] = "committed"
           /\ prices' = prices \o batchRows[r]

\* C17: imports that run together do not interfere. Whatever the interleaving,
\* the table after the commits is the rows that were there plus the rows each
\* committed batch inserted, none lost and none twice, and each response's
\* total_items is the number of rows its own request inserted.
C17_NoInterference == [] NoInterference /\ [][GrowsByBatch]_vars

\* Two imports succeeded, the one row of the one inserted between the two rows of the other.
C17_Witness ==
    \E r, q \in Requests :
        /\ Succeeded(r) /\ Succeeded(q)
        /\ Len(batchRows[r]) = 2 /\ Len(batchRows[q]) = 1
        /\ batchRows[r][1].id < batchRows[q][1].id
        /\ batchRows[q][1].id < batchRows[r][2].id
        /\ result[r].total_items = 2 /\ result[q].total_items = 1
        /\ Len(prices) = 3

(***************************************************************************)
(* C18. The rows of a batch keep the order of the file.                     *)
(***************************************************************************)
\* the ExecContext calls of r that returned nil, in the order they were made
Inserts(r) == SelectSeq(submitted[r], LAMBDA e : e.ok)

\* the record of the file that the row with this id, a row of r's batch, came from
LineOf(r, id) ==
    Inserts(r)[CHOOSE k \in 1..Len(batchRows[r]) : batchRows[r][k].id = id].line

\* C18: the rows of one batch are inserted in the order of the file: of two rows
\* that both were inserted, the one from the earlier record has the smaller
\* id, also when another import inserts in between; and so a GET response,
\* which is ordered by id, lists the rows of a batch in the order of the file.
C18_SourceOrder ==
    \A r \in Requests :
        /\ Len(Inserts(r)) = Len(batchRows[r])
        /\ \A k, l \in 1..Len(batchRows[r]) :
               /\ batchRows[r][k].name = Inserts(r)[k].args.name
               /\ k < l => /\ Inserts(r)[k].line < Inserts(r)[l].line
                           /\ batchRows[r][k].id < batchRows[r][l].id
        /\ exportStatus = 200 =>
               \A a, b \in 2..Len(exported) :
                   LET ida == Atoi(exported[a].fields[1]).val
                       idb == Atoi(exported[b].fields[1]).val
                   IN  (a < b /\ ida \in BatchIds(r) /\ idb \in BatchIds(r))
                           => LineOf(r, ida) < LineOf(r, idb)

\* A GET lists the two rows of one batch, in the order of the file, with the
\* row another import inserted in between them.
C18_Witness ==
    \E r, q \in Requests :
        /\ r # q /\ exportStatus = 200 /\ Len(exported) = 4
        /\ Len(batchRows[r]) = 2 /\ Len(batchRows[q]) = 1
        /\ Atoi(exported[2].fields[1]).val = batchRows[r][1].id
        /\ Atoi(exported[3].fields[1]).val = batchRows[q][1].id
        /\ Atoi(exported[4].fields[1]).val = batchRows[r][2].id
        /\ LineOf(r, batchRows[r][1].id) = 2 /\ LineOf(r, batchRows[r][2].id) = 3

(***************************************************************************)
(* C19. The rows of the table.                                              *)
(***************************************************************************)
\* every column of every row has a value
RowsComplete ==
    \A i \in 1..Len(prices) :
        /\ DOMAIN prices[i] = {"id", "product_id", "name", "category", "price", "create_date"}
        /\ prices[i].id \in 1..(nextId - 1)
        /\ prices[i].product_id \in Int
        /\ prices[i].price \in Int
        /\ DOMAIN prices[i].name = 1..Len(prices[i].name)
        /\ DOMAIN prices[i].category = 1..Len(prices[i].category)
        /\ DOMAIN prices[i].create_date = {"y", "m", "d"}

\* a step keeps every row of the table as it is, and a row it adds comes from a
\* record of 6 fields or more whose ExecContext returned nil, in a transaction
\* that this step has committed
RowsKept ==
    /\ Len(prices') >= Len(prices)
    /\ \A i \in 1..Len(prices) : prices'[i] = prices[i]
    /\ \A i \in (Len(prices) + 1)..Len(prices') :
           \E r \in Requests :
               /\ tx[r] = "open" /\ tx'[r] = "committed"
               /\ \E k \in Accepted(r) :
                      LET f == Rows(r)[submitted[r][k].line].fields
                      IN  /\ Len(f) >= 6
                          /\ prices'[i].product_id = Atoi(f[1]).val
                          /\ prices'[i].name = f[2]
                          /\ prices'[i].category = f[3]
                          /\ prices'[i].price = ParseFloat(f[5])
                          /\ prices'[i].create_date = ParseDate(f[6])

\* C19: every row of the table was there before or comes from a record of at
\* least 6 fields whose insert succeeded in a batch that committed; every row
\* has a value in each of its columns; no step of an import or of an export
\* changes or removes a row that is in the table.
C19_StoreRows == [] RowsComplete /\ [][RowsKept]_vars

\* An import committed rows beside those of an earlier import, and a GET listed them all.
C19_Witness ==
    \E r \in Requests :
        /\ Succeeded(r) /\ Len(batchRows[r]) > 0
        /\ Len(prices) > Len(batchRows[r])
        /\ exportStatus = 200 /\ Len(exported) = Len(prices) + 1

====
